---- MODULE Spec2Model ----
(***************************************************************************)
(* Food donation app (src/app.py): the donation lifecycle as the Streamlit *)
(* handlers implement it.  Every browser session holds its own in-memory   *)
(* copy of the donation list (st.session_state.donations, loaded once when *)
(* the session starts); every handler edits that copy and then writes the  *)
(* whole copy to donations.json.                                           *)
(***************************************************************************)
EXTENDS Integers, Sequences, FiniteSets, TLC

VARIABLES
    file,              \* content of donations.json: a sequence of records
    donations,         \* donations[s]: st.session_state.donations of session s
    page,              \* page[s]: st.session_state.page
    user,              \* user[s]: st.session_state.user (None or Some(phone))
    collector_coords,  \* collector_coords[s]: None or Some(<<lat, lon>>)
    now,               \* the clock read by now_ts()
    nextId,            \* number of ids handed out so far (ids are never reused)
    event,             \* the handler that ran in the last step and what it reported
    users_file,        \* content of users.json: phone -> user record
    users,             \* users[s]: st.session_state.users of session s
    call,              \* the seen-ledger operation that ran in the last step
    disk               \* donations.json and donations.json.tmp during save_json

vars == <<file, donations, page, user, collector_coords, now, nextId, event,
          users_file, users, call, disk>>

----------------------------------------------------------------------------
(* Bounds of the model *)

MaxDonations == 1
MaxTime == 2
MaxStored == 2
MaxChunks == 2

Sessions == {"s1", "s2"}
Phones == {"p1", "p2"}

(* Program constants *)

NEARBY_RADIUS_KM == 10

----------------------------------------------------------------------------
(* Python's None and nullable values: None is the empty tuple, a present   *)
(* value v is the one-element tuple <<v>>.                                 *)

None == << >>
Some(v) == <<v>>
Val(o) == o[1]

(* users[phone]["name"]: every user has a non-empty name of their own.     *)
NameOf(p) == "name_" \o p

(* Values typed into a required text field: left empty, or filled in.      *)
FieldInputs == {"", "x"}

(* Coordinates are metres on a local plane, <<lat, lon>>.  Spots are the    *)
(* places a map click or the geocoder can yield for a donation, Origins    *)
(* the places the geocoder can yield for a collector.                      *)
Spots == {<<1000, 4000>>}
Origins == {<<1000, 1000>>}

SeqMap(Op(_), seq) == [i \in DOMAIN seq |-> Op(seq[i])]

Range(seq) == {seq[i] : i \in DOMAIN seq}

----------------------------------------------------------------------------
(* Storage *)

(* load_blocked_users(): blocked_users.json is written only by the admin   *)
(* panel's approval of a report; no report is filed here, so the file is   *)
(* absent and load_json returns its default, the empty list.               *)
load_blocked_users == {}

(* load_donations(): the list of the file, with the id of every record     *)
(* that has an empty id or an id already seen earlier in the list          *)
(* replaced by a fresh one (the source builds it from the phone, the       *)
(* clock and a uuid; here the next unused number).  The records of this    *)
(* model carry every key and numeric coordinates, so the setdefault        *)
(* calls, the missing-status and the string-coordinate repairs find        *)
(* nothing to do.  The repaired list is written back when a repair ran.    *)
MaxOf(S) == IF S = {} THEN 0 ELSE CHOOSE m \in S : \A x \in S : x <= m

RECURSIVE RepairIds(_, _, _)
RepairIds(rest, seen_ids, top) ==
    IF rest = << >> THEN << >>
    ELSE LET d   == Head(rest)
             bad == d.id = 0 \/ d.id \in seen_ids
             id  == IF bad THEN top + 1 ELSE d.id
         IN  <<[d EXCEPT !.id = id]>>
                \o RepairIds(Tail(rest), seen_ids \cup {id},
                             IF bad THEN top + 1 ELSE top)

load_donations(stored) ==
    RepairIds(stored, {}, MaxOf({stored[i].id : i \in DOMAIN stored}))

(* A save that writes nothing of the list.                                 *)
save_donations_Nothing(list) == << >>

(* save_donations(donations): the whole list replaces the file.            *)
save_donations(list) == list

----------------------------------------------------------------------------
(* Distance *)

(* Largest r with r * r <= n, by bisection between lo and hi.               *)
RECURSIVE ISqrtIn(_, _, _)
ISqrtIn(n, lo, hi) ==
    IF lo >= hi THEN lo
    ELSE LET mid == (lo + hi + 1) \div 2
         IN  IF mid * mid <= n THEN ISqrtIn(n, mid, hi) ELSE ISqrtIn(n, lo, mid - 1)

DistSq(a, b) == (a[1] - b[1]) * (a[1] - b[1]) + (a[2] - b[2]) * (a[2] - b[2])

(* geodesic(origin, d_coords).km, kept in whole metres.                    *)
DistM(a, b) == ISqrtIn(DistSq(a, b), 0, 40000)

(* round(dist, 2) <= NEARBY_RADIUS_KM: the test on the value displayed.    *)
WithinRadius_Rounded(a, b) ==
    (ISqrtIn(DistSq(a, b), 0, 40000) + 5) \div 10 <= NEARBY_RADIUS_KM * 100

(* dist <= NEARBY_RADIUS_KM, decided on the unrounded distance.            *)
WithinRadius(a, b) ==
    DistSq(a, b) <= (NEARBY_RADIUS_KM * 1000) * (NEARBY_RADIUS_KM * 1000)

(* round(dist, 2): the distance in hundredths of a kilometre.              *)
Round2(dm) == (dm + 5) \div 10

----------------------------------------------------------------------------
(* Donation records *)

Statuses == {"active", "accepted", "picked_up", "cancelled"}

(* The donor form's dictionary with the coordinates left out.              *)
new_donation_NoCoords(id, phone, food, quantity, availability, location, lat, lon, t) ==
    [id |-> id,
     donor |-> NameOf(phone),
     phone |-> phone,
     food |-> food,
     quantity |-> quantity,
     availability |-> availability,
     location |-> location,
     lat |-> None,
     lon |-> None,
     status |-> "active",
     collector_name |-> None,
     collector_phone |-> None,
     created_at |-> t,
     accepted_at |-> None,
     picked_up_at |-> None,
     cancelled_at |-> None]

(* The dictionary built by the donor form.                                 *)
new_donation(id, phone, food, quantity, availability, location, lat, lon, t) ==
    [id |-> id,
     donor |-> NameOf(phone),
     phone |-> phone,
     food |-> food,
     quantity |-> quantity,
     availability |-> availability,
     location |-> location,
     lat |-> Some(lat),
     lon |-> Some(lon),
     status |-> "active",
     collector_name |-> None,
     collector_phone |-> None,
     created_at |-> t,
     accepted_at |-> None,
     picked_up_at |-> None,
     cancelled_at |-> None]

(* unique_id: the phone, the clock in microseconds and six hex digits of   *)
(* a uuid4, taken to differ from every id made before; here the number     *)
(* after those handed out so far.  The mutant hands out one id for all.    *)
unique_id_Same(handed_out) == 1

unique_id(handed_out) == handed_out + 1

(* Python truthiness of a nullable number: None and 0 are false.           *)
Truthy(o) == o # None /\ Val(o) # 0

HasId(list, id) == \E i \in DOMAIN list : list[i].id = id

Lookup(list, id) == list[CHOOSE i \in DOMAIN list : list[i].id = id]

(* The record with this id as a nullable value.                            *)
Find(list, id) == IF HasId(list, id) THEN Some(Lookup(list, id)) ELSE None

----------------------------------------------------------------------------
(* The loop bodies of the transition handlers: what one pass of            *)
(* "for dd in st.session_state.donations" does to one record.              *)

(* Accept Request with created_at assigned instead of setdefault.          *)
AcceptUpdate_ResetsCreated(dd, id, me, t) ==
    IF dd.id = id /\ dd.status = "active"
    THEN [dd EXCEPT !.status = "accepted",
                    !.collector_name = Some(NameOf(me)),
                    !.collector_phone = Some(me),
                    !.created_at = t,
                    !.accepted_at = Some(t)]
    ELSE dd

(* Accept Request that assigns the donation to its donor.                  *)
AcceptUpdate_AssignsDonor(dd, id, me, t) ==
    IF dd.id = id /\ dd.status = "active"
    THEN [dd EXCEPT !.status = "accepted",
                    !.collector_name = Some(NameOf(dd.phone)),
                    !.collector_phone = Some(dd.phone),
                    !.accepted_at = Some(t)]
    ELSE dd

(* Accept Request.  dd.setdefault("created_at", now_ts()) finds the key    *)
(* present in every record and changes nothing.                            *)
AcceptUpdate(dd, id, me, t) ==
    IF dd.id = id /\ dd.status = "active"
    THEN [dd EXCEPT !.status = "accepted",
                    !.collector_name = Some(NameOf(me)),
                    !.collector_phone = Some(me),
                    !.accepted_at = Some(t)]
    ELSE dd

(* Confirm Pickup that does not stamp picked_up_at.                        *)
PickupUpdate_NoStamp(dd, id, me, t) ==
    IF dd.id = id /\ dd.status = "accepted" /\ dd.collector_phone = Some(me)
    THEN [dd EXCEPT !.status = "picked_up"]
    ELSE dd

(* Confirm Pickup, in the browse panel and in the collection history.      *)
PickupUpdate(dd, id, me, t) ==
    IF dd.id = id /\ dd.status = "accepted" /\ dd.collector_phone = Some(me)
    THEN [dd EXCEPT !.status = "picked_up", !.picked_up_at = Some(t)]
    ELSE dd

(* Cancel Acceptance that leaves collector_name in place.                  *)
CancelAcceptUpdate_KeepsName(dd, id, me) ==
    IF dd.id = id /\ dd.status = "accepted" /\ dd.collector_phone = Some(me)
    THEN [dd EXCEPT !.status = "active",
                    !.collector_phone = None,
                    !.accepted_at = None]
    ELSE dd

(* Cancel Acceptance that leaves accepted_at in place.                     *)
CancelAcceptUpdate_KeepsAcceptedAt(dd, id, me) ==
    IF dd.id = id /\ dd.status = "accepted" /\ dd.collector_phone = Some(me)
    THEN [dd EXCEPT !.status = "active",
                    !.collector_name = None,
                    !.collector_phone = None]
    ELSE dd

(* Cancel Acceptance, in the browse panel and in the collection history.   *)
CancelAcceptUpdate(dd, id, me) ==
    IF dd.id = id /\ dd.status = "accepted" /\ dd.collector_phone = Some(me)
    THEN [dd EXCEPT !.status = "active",
                    !.collector_name = None,
                    !.collector_phone = None,
                    !.accepted_at = None]
    ELSE dd

(* The donor's Cancel button. *)
DonorCancelUpdate(dd, id, t) ==
    IF dd.id = id
    THEN [dd EXCEPT !.status = "cancelled", !.cancelled_at = Some(t)]
    ELSE dd

----------------------------------------------------------------------------
(* What the pages show *)

(* The donor's list without the status filter.                             *)
active_donations_AnyStatus(list, phone) ==
    LET Mine(d) == d.phone \notin load_blocked_users /\ d.phone = phone
    IN  SelectSeq(list, Mine)

(* donor_page: the requester's own donations with status active, among     *)
(* the donations of donors that are not blocked.                           *)
active_donations(list, phone) ==
    LET Mine(d) == d.phone \notin load_blocked_users /\ d.phone = phone
                   /\ d.status = "active"
    IN  SelectSeq(list, Mine)

(* The rule without the comparison of collector_phone.                     *)
VisibleTo_AnyCollector(d, me) == d.status \in {"active", "accepted"}

(* The visibility rule of the collector page. *)
VisibleTo(d, me) ==
    d.status = "active" \/ (d.status = "accepted" /\ d.collector_phone = Some(me))

(* collector_page: nearby_donors, a list of copies; with an origin set     *)
(* each copy carries distance_km.                                          *)
nearby_donors(list, me, coords) ==
    IF coords # None
    THEN LET origin == Val(coords)
             Near(d) == /\ d.lat # None /\ d.lon # None
                        /\ d.status \in {"active", "accepted"}
                        /\ ~(d.status = "accepted" /\ d.collector_phone # Some(me))
                        /\ WithinRadius(origin, <<Val(d.lat), Val(d.lon)>>)
             Copy(d) == [d |-> d,
                         distance_km |->
                             Some(Round2(DistM(origin, <<Val(d.lat), Val(d.lon)>>)))]
         IN  SeqMap(Copy, SelectSeq(list, Near))
    ELSE LET Shown(d) == VisibleTo(d, me) /\ Truthy(d.lat) /\ Truthy(d.lon)
             Copy(d) == [d |-> d, distance_km |-> None]
         IN  SeqMap(Copy, SelectSeq(list, Shown))

(* collector_page: active_map, the entries of the browse selectbox.        *)
active_map(nearby, me) ==
    LET Actable(e) == VisibleTo(e.d, me)
    IN  SelectSeq(nearby, Actable)

(* The label of a selectbox entry. *)
Label(e) == <<e.d.food, e.d.quantity, e.d.donor, e.distance_km, e.d.status>>

(* chosen = active_map[active_labels.index(selected_label)]: the first     *)
(* entry that carries the label of the entry the collector picked.         *)
Chosen(amap, k) ==
    amap[CHOOSE j \in DOMAIN amap :
            /\ Label(amap[j]) = Label(amap[k])
            /\ \A i \in DOMAIN amap : Label(amap[i]) = Label(amap[k]) => j <= i].d

(* The donations the browse panel lets this collector pick.                *)
Choosable(list, me, coords) ==
    LET amap == active_map(nearby_donors(list, me, coords), me)
    IN  {Chosen(amap, k) : k \in DOMAIN amap}

(* My Collection History: accepted_by_me.                                  *)
accepted_by_me(list, me) ==
    LET Mine(d) == d.status = "accepted" /\ d.collector_phone = Some(me)
    IN  SelectSeq(list, Mine)

----------------------------------------------------------------------------
(* The "seen" ledger of the notifications, kept in the user records.       *)
(* users is a dictionary phone -> [name, seen]; seen is None when the key  *)
(* is missing, else a dictionary role -> bucket, a bucket being None when  *)
(* the role key is missing, else a dictionary donation id -> the events    *)
(* whose flag is True.                                                     *)

Roles == {"donor", "collector"}

Events == {"accepted", "picked_up", "cancelled"}

(* The dictionary with no keys. *)
EmptyDict == << >>

(* d[k] = v on a dictionary. *)
Put(d, k, v) == [x \in (DOMAIN d) \cup {k} |-> IF x = k THEN v ELSE d[x]]

(* d.pop(k, None) on a dictionary. *)
Pop(d, k) == [x \in (DOMAIN d) \ {k} |-> d[x]]

(* {"donor": {}, "collector": {}} *)
EmptySeen == [r \in Roles |-> Some(EmptyDict)]

(* The record a registration stores. *)
new_user(phone) == [name |-> NameOf(phone), seen |-> Some(EmptySeen)]

(* The repair of one user record shared by load_users and                  *)
(* ensure_user_seen: a missing "seen" becomes the two empty buckets, a     *)
(* missing bucket becomes empty.                                           *)
WithBuckets(u) ==
    IF u.seen = None
    THEN [u EXCEPT !.seen = Some(EmptySeen)]
    ELSE [u EXCEPT !.seen =
             Some([r \in Roles |-> IF Val(u.seen)[r] = None
                                   THEN Some(EmptyDict) ELSE Val(u.seen)[r]])]

(* load_users(): every record of the file, repaired. *)
load_users(stored) == [p \in DOMAIN stored |-> WithBuckets(stored[p])]

(* load_users() writes the file back only when some record had no "seen".  *)
load_users_changed(stored) == \E p \in DOMAIN stored : stored[p].seen = None

save_users(dict) == dict

ensure_user_seen(dict, phone) ==
    IF phone \notin DOMAIN dict THEN dict
    ELSE [dict EXCEPT ![phone] = WithBuckets(@)]

(* mark_seen that flips the flag instead of setting it.                    *)
mark_seen_Flips(dict, phone, role_bucket, donation_id, ev) ==
    IF phone \notin DOMAIN dict THEN dict
    ELSE LET ensured == ensure_user_seen(dict, phone)
             bucket  == Val(Val(ensured[phone].seen)[role_bucket])
             flags   == IF donation_id \in DOMAIN bucket
                        THEN bucket[donation_id] ELSE {}
         IN  [ensured EXCEPT ![phone].seen =
                 Some([Val(@) EXCEPT ![role_bucket] =
                          Some(Put(bucket, donation_id,
                                   IF ev \in flags THEN flags \ {ev}
                                   ELSE flags \cup {ev}))])]

(* mark_seen that forgets the flags the donation already had.              *)
mark_seen_Overwrites(dict, phone, role_bucket, donation_id, ev) ==
    IF phone \notin DOMAIN dict THEN dict
    ELSE LET ensured == ensure_user_seen(dict, phone)
             bucket  == Val(Val(ensured[phone].seen)[role_bucket])
         IN  [ensured EXCEPT ![phone].seen =
                 Some([Val(@) EXCEPT ![role_bucket] =
                          Some(Put(bucket, donation_id, {ev}))])]

(* mark_seen(phone, role_bucket, donation_id, event), on the dictionary.   *)
mark_seen(dict, phone, role_bucket, donation_id, ev) ==
    IF phone \notin DOMAIN dict THEN dict
    ELSE LET ensured == ensure_user_seen(dict, phone)
             bucket  == Val(Val(ensured[phone].seen)[role_bucket])
             flags   == IF donation_id \in DOMAIN bucket
                        THEN bucket[donation_id] ELSE {}
         IN  [ensured EXCEPT ![phone].seen =
                 Some([Val(@) EXCEPT ![role_bucket] =
                          Some(Put(bucket, donation_id, flags \cup {ev}))])]

(* update_users() is reached by mark_seen only past the unknown-user       *)
(* return.                                                                 *)
mark_seen_saves(dict, phone) == phone \in DOMAIN dict

(* is_seen that reads the donor bucket whatever the role asked for.        *)
is_seen_AnyRole(dict, phone, role_bucket, donation_id, ev) ==
    IF phone \notin DOMAIN dict THEN FALSE
    ELSE LET seen   == IF dict[phone].seen = None
                       THEN [r \in Roles |-> None] ELSE Val(dict[phone].seen)
             bucket == IF seen["donor"] = None THEN EmptyDict ELSE Val(seen["donor"])
         IN  donation_id \in DOMAIN bucket /\ ev \in bucket[donation_id]

(* is_seen(phone, role_bucket, donation_id, event). *)
is_seen(dict, phone, role_bucket, donation_id, ev) ==
    IF phone \notin DOMAIN dict THEN FALSE
    ELSE LET seen   == IF dict[phone].seen = None
                       THEN [r \in Roles |-> None] ELSE Val(dict[phone].seen)
             bucket == IF seen[role_bucket] = None
                       THEN EmptyDict ELSE Val(seen[role_bucket])
         IN  donation_id \in DOMAIN bucket /\ ev \in bucket[donation_id]

(* "Unhide" that drops the whole entry of the donation.                    *)
unhide_DropsDonation(dict, phone, donation_id, ev) ==
    LET bucket == Val(Val(dict[phone].seen)["donor"])
    IN  [dict EXCEPT ![phone].seen =
            Some([Val(@) EXCEPT !["donor"] = Some(Pop(bucket, donation_id))])]

(* donor_page, "Unhide (show again)":                                      *)
(*   users[phone]["seen"]["donor"].setdefault(did, {})                     *)
(*   users[phone]["seen"]["donor"][did].pop(event, None)                   *)
unhide(dict, phone, donation_id, ev) ==
    LET bucket == Val(Val(dict[phone].seen)["donor"])
        flags  == IF donation_id \in DOMAIN bucket THEN bucket[donation_id] ELSE {}
    IN  [dict EXCEPT ![phone].seen =
            Some([Val(@) EXCEPT !["donor"] =
                     Some(Put(bucket, donation_id, flags \ {ev}))])]

(* clear_seen_for_donation(phone, role_bucket, donation_id): drops every   *)
(* event of the donation.  Nothing calls it.                               *)
clear_seen_for_donation(dict, phone, role_bucket, donation_id) ==
    IF phone \notin DOMAIN dict THEN dict
    ELSE IF dict[phone].seen # None /\ Val(dict[phone].seen)[role_bucket] # None
    THEN [dict EXCEPT ![phone].seen =
             Some([Val(@) EXCEPT ![role_bucket] =
                      Some(Pop(Val(Val(dict[phone].seen)[role_bucket]), donation_id))])]
    ELSE dict

(* The last ledger operation run: the session, the arguments, and the      *)
(* session's dictionary as it was when the operation started.              *)
NoCall ==
    [op |-> "none", session |-> "", phone |-> "", role |-> "", id |-> 0,
     ev |-> "", before |-> EmptyDict]

Called(op, s, phone, role, id, ev) ==
    [op |-> op, session |-> s, phone |-> phone, role |-> role, id |-> id,
     ev |-> ev, before |-> users[s]]

(* A step that runs no ledger operation and leaves the user records.       *)
LedgerUntouched == call' = NoCall /\ UNCHANGED <<users_file, users>>

----------------------------------------------------------------------------
(* The last donation handler run: op names the handler, report what it     *)
(* told the user (st.success, st.info, st.error, or nothing), before the   *)
(* session's record of the donation and stored the file's record of it,    *)
(* both as they were when the handler started.  pre_accept is kept by a    *)
(* Cancel Acceptance that directly follows the same session's Accept of    *)
(* the same donation: the session's record as it was before that Accept.   *)

CancelAcceptOps == {"cancel_accept", "hist_cancel_accept"}

PickupOps == {"pickup", "hist_pickup"}

TransitionOps == {"accept", "cancel"} \cup PickupOps \cup CancelAcceptOps

NoEvent ==
    [op |-> "none", session |-> "", me |-> "", id |-> 0, report |-> "none",
     before |-> None, stored |-> None, pre_accept |-> None]

Ran(op, s, id, report) ==
    [op |-> op, session |-> s, me |-> Val(user[s]), id |-> id, report |-> report,
     before |-> Find(donations[s], id), stored |-> Find(file, id),
     pre_accept |-> IF /\ op \in CancelAcceptOps /\ event.op = "accept"
                       /\ event.session = s /\ event.id = id
                    THEN event.before ELSE None]

----------------------------------------------------------------------------
(* save_json, step by step.  The text json.dump produces reaches the file  *)
(* in chunks, one for each flush of the file object's buffer; a chunk is   *)
(* <<who wrote it, its number>>.  disk.content[i] is the text of the file  *)
(* with inode i; disk.path and disk.tmp are the inodes that the names      *)
(* donations.json and donations.json.tmp lead to (0: no such name);        *)
(* disk.w[s] is the save_json call of session s: where it stands, its      *)
(* text, the inode its file object has open and how many chunks it has     *)
(* written; disk.loaded is what the last load_json returned.               *)

Inodes == 1 .. 3

NoInode == 0

Hole == <<"", 0>>

Text(who, n) == [k \in 1 .. n |-> <<who, k>>]

(* The complete content of donations.json before any of the saves.         *)
Previous == Text("old", MaxChunks)

(* load_json's default: the empty list. *)
Default == << >>

NotSaving == [pc |-> "idle", obj |-> << >>, fd |-> NoInode, pos |-> 0]

Quiet ==
    [content |-> [i \in Inodes |-> IF i = 1 THEN Previous ELSE << >>],
     path |-> 1,
     tmp |-> NoInode,
     used |-> 1,
     w |-> [s \in Sessions |-> NotSaving],
     loaded |-> Default]

----------------------------------------------------------------------------
(* Initial states: every session has run the session-state                *)
(* initialisation, which loaded donations.json and users.json, and shows   *)
(* the login page.  Started: there is no donations.json yet.               *)

Loaded(stored, stored_users) ==
    /\ file = load_donations(stored)
    /\ donations = [s \in Sessions |-> load_donations(stored)]
    /\ page = [s \in Sessions |-> "login"]
    /\ user = [s \in Sessions |-> None]
    /\ collector_coords = [s \in Sessions |-> None]
    /\ now = 1
    /\ nextId = MaxOf({load_donations(stored)[i].id : i \in DOMAIN stored})
    /\ event = NoEvent
    /\ users_file = IF load_users_changed(stored_users)
                    THEN save_users(load_users(stored_users)) ELSE stored_users
    /\ users = [s \in Sessions |-> load_users(stored_users)]
    /\ call = NoCall
    /\ disk = Quiet

Started(stored_users) == Loaded(<< >>, stored_users)

(* users.json after every phone has registered. *)
AllRegistered == [p \in Phones |-> new_user(p)]

Init == Started(AllRegistered)

(* Time passes. *)
Tick ==
    /\ now < MaxTime
    /\ now' = now + 1
    /\ event' = NoEvent
    /\ UNCHANGED <<file, donations, page, user, collector_coords, nextId, disk>>
    /\ LedgerUntouched

(* A browser opens the app anew: the session state is initialised, the     *)
(* donations and the users are loaded from their files.                    *)
NewSession(s) ==
    /\ donations' = [donations EXCEPT ![s] = load_donations(file)]
    /\ file' = load_donations(file)
    /\ users' = [users EXCEPT ![s] = load_users(users_file)]
    /\ users_file' = IF load_users_changed(users_file)
                     THEN save_users(load_users(users_file)) ELSE users_file
    /\ page' = [page EXCEPT ![s] = "login"]
    /\ user' = [user EXCEPT ![s] = None]
    /\ collector_coords' = [collector_coords EXCEPT ![s] = None]
    /\ event' = NoEvent
    /\ call' = NoCall
    /\ UNCHANGED <<now, nextId, disk>>

(* login_page: a login with the right password, or, for a phone the        *)
(* session's users do not have, a registration, which is saved.            *)
Login(s, phone) ==
    /\ page[s] = "login"
    /\ phone \notin load_blocked_users
    /\ IF phone \in DOMAIN users[s]
       THEN /\ users' = [users EXCEPT ![s] = ensure_user_seen(users[s], phone)]
            /\ users_file' = users_file
       ELSE /\ users' = [users EXCEPT ![s] = Put(users[s], phone, new_user(phone))]
            /\ users_file' = save_users(Put(users[s], phone, new_user(phone)))
    /\ user' = [user EXCEPT ![s] = Some(phone)]
    /\ page' = [page EXCEPT ![s] = "role_select"]
    /\ event' = NoEvent
    /\ call' = NoCall
    /\ UNCHANGED <<file, donations, collector_coords, now, nextId, disk>>

(* role_select_page: the Donor and Collector buttons.                      *)
ChooseRole(s, target) ==
    /\ page[s] = "role_select"
    /\ page' = [page EXCEPT ![s] = target]
    /\ event' = NoEvent
    /\ UNCHANGED <<file, donations, user, collector_coords, now, nextId, disk>>
    /\ LedgerUntouched

(* The Back button of the donor and collector pages.                       *)
Back(s) ==
    /\ page[s] \in {"donor_page", "collector_page"}
    /\ page' = [page EXCEPT ![s] = "role_select"]
    /\ event' = NoEvent
    /\ UNCHANGED <<file, donations, user, collector_coords, now, nextId, disk>>
    /\ LedgerUntouched

(* The phone of the user role_select_page offers the admin panel to.       *)
ADMIN_PHONE == "8891867973"

(* role_select_page: the Admin Panel button, drawn for the admin only.     *)
OpenAdminPanel(s) ==
    /\ page[s] = "role_select"
    /\ user[s] = Some(ADMIN_PHONE)
    /\ page' = [page EXCEPT ![s] = "admin_panel"]
    /\ event' = NoEvent
    /\ UNCHANGED <<file, donations, user, collector_coords, now, nextId, disk>>
    /\ LedgerUntouched

(* The Back button of the community page.                                  *)
CommunityBack(s) ==
    /\ page[s] = "community_page"
    /\ page' = [page EXCEPT ![s] = "role_select"]
    /\ event' = NoEvent
    /\ UNCHANGED <<file, donations, user, collector_coords, now, nextId, disk>>
    /\ LedgerUntouched

(* Logout that leaves the collector's origin in the session.               *)
Logout_KeepsOrigin(s) ==
    /\ page[s] = "role_select"
    /\ page' = [page EXCEPT ![s] = "login"]
    /\ user' = [user EXCEPT ![s] = None]
    /\ event' = NoEvent
    /\ UNCHANGED <<file, donations, collector_coords, now, nextId, disk>>
    /\ LedgerUntouched

(* role_select_page: Logout. *)
Logout(s) ==
    /\ page[s] = "role_select"
    /\ page' = [page EXCEPT ![s] = "login"]
    /\ user' = [user EXCEPT ![s] = None]
    /\ collector_coords' = [collector_coords EXCEPT ![s] = None]
    /\ event' = NoEvent
    /\ UNCHANGED <<file, donations, now, nextId, disk>>
    /\ LedgerUntouched

----------------------------------------------------------------------------
(* Handlers *)

(* update_donations() after the handler changed the session's list.        *)
Update(s, list) ==
    /\ donations' = [donations EXCEPT ![s] = list]
    /\ file' = save_donations(list)

(* collector_page: Set My Location.  loc is the geocoder's answer.         *)
SetLocation(s, collector_location, loc) ==
    /\ page[s] = "collector_page"
    /\ collector_coords' =
          IF collector_location # "" /\ loc # None
          THEN [collector_coords EXCEPT ![s] = loc]
          ELSE collector_coords
    /\ event' = NoEvent
    /\ UNCHANGED <<file, donations, page, user, now, nextId, disk>>
    /\ LedgerUntouched

(* donor_page: Save Donation.  click is the map's last_clicked, loc the    *)
(* geocoder's answer for the location text, asked only without a click.    *)
(* limit bounds the number of donations ever created.                      *)
SaveDonation(limit, s, food_item, quantity_text, availability, location_name, click, loc) ==
    /\ page[s] = "donor_page"
    /\ LET chosen == IF click # None THEN click ELSE loc
           filled == food_item # "" /\ quantity_text # "" /\ availability # ""
                     /\ location_name # ""
       IN  IF filled /\ chosen # None
           THEN /\ nextId < limit
                /\ nextId' = nextId + 1
                /\ Update(s, Append(donations[s],
                         new_donation(unique_id(nextId), Val(user[s]), food_item,
                                      quantity_text, availability, location_name,
                                      Val(chosen)[1], Val(chosen)[2], now)))
                /\ event' = Ran("create", s, unique_id(nextId), "success")
           ELSE /\ event' = Ran("create", s, 0, "error")
                /\ UNCHANGED <<file, donations, nextId>>
    /\ UNCHANGED <<page, user, collector_coords, now, disk>>
    /\ LedgerUntouched

CreateDonation(s, food_item, quantity_text, availability, location_name, click, loc) ==
    SaveDonation(MaxDonations, s, food_item, quantity_text, availability,
                 location_name, click, loc)

(* donor_page: the Cancel button of one of "Your Active Donations".        *)
DonorCancel(s, id) ==
    /\ page[s] = "donor_page"
    /\ \E d \in Range(active_donations(donations[s], Val(user[s]))) : d.id = id
    /\ LET Body(dd) == DonorCancelUpdate(dd, id, now)
       IN  Update(s, SeqMap(Body, donations[s]))
    /\ event' = Ran("cancel", s, id, "none")
    /\ UNCHANGED <<page, user, collector_coords, now, nextId, disk>>
    /\ LedgerUntouched

(* The donation picked in the browse selectbox, if it has this id.         *)
ChosenIs(s, id, d) ==
    /\ page[s] = "collector_page"
    /\ d \in Choosable(donations[s], Val(user[s]), collector_coords[s])
    /\ d.id = id

(* Accept Request that also marks the acceptance seen for the donor.       *)
Accept_MarksSeen(s, id) ==
    /\ \E chosen \in Range(donations[s]) :
          ChosenIs(s, id, chosen) /\ chosen.status = "active"
    /\ LET Body(dd) == AcceptUpdate(dd, id, Val(user[s]), now)
       IN  Update(s, SeqMap(Body, donations[s]))
    /\ event' = Ran("accept", s, id, "success")
    /\ UNCHANGED <<page, user, collector_coords, now, nextId, disk>>
    /\ call' = NoCall
    /\ users' = [users EXCEPT ![s] =
                    mark_seen(users[s], Lookup(donations[s], id).phone,
                              "donor", id, "accepted")]
    /\ users_file' = users_file

(* collector_page, browse panel: Accept Request. *)
Accept(s, id) ==
    /\ \E chosen \in Range(donations[s]) :
          ChosenIs(s, id, chosen) /\ chosen.status = "active"
    /\ LET Body(dd) == AcceptUpdate(dd, id, Val(user[s]), now)
       IN  Update(s, SeqMap(Body, donations[s]))
    /\ event' = Ran("accept", s, id, "success")
    /\ UNCHANGED <<page, user, collector_coords, now, nextId, disk>>
    /\ LedgerUntouched

(* collector_page, browse panel: Confirm Pickup. *)
ConfirmPickup(s, id) ==
    /\ \E chosen \in Range(donations[s]) :
          /\ ChosenIs(s, id, chosen)
          /\ chosen.status # "active"
          /\ chosen.status = "accepted" /\ chosen.collector_phone = user[s]
    /\ LET Body(dd) == PickupUpdate(dd, id, Val(user[s]), now)
       IN  Update(s, SeqMap(Body, donations[s]))
    /\ event' = Ran("pickup", s, id, "success")
    /\ UNCHANGED <<page, user, collector_coords, now, nextId, disk>>
    /\ LedgerUntouched

(* collector_page, browse panel: Cancel Acceptance. *)
CancelAcceptance(s, id) ==
    /\ \E chosen \in Range(donations[s]) :
          /\ ChosenIs(s, id, chosen)
          /\ chosen.status # "active"
          /\ chosen.status = "accepted" /\ chosen.collector_phone = user[s]
    /\ LET Body(dd) == CancelAcceptUpdate(dd, id, Val(user[s]))
       IN  Update(s, SeqMap(Body, donations[s]))
    /\ event' = Ran("cancel_accept", s, id, "info")
    /\ UNCHANGED <<page, user, collector_coords, now, nextId, disk>>
    /\ LedgerUntouched

(* collector_page, My Collection History: Confirm Pickup. *)
HistConfirmPickup(s, id) ==
    /\ page[s] = "collector_page"
    /\ \E d \in Range(accepted_by_me(donations[s], Val(user[s]))) : d.id = id
    /\ LET Body(dd) == PickupUpdate(dd, id, Val(user[s]), now)
       IN  Update(s, SeqMap(Body, donations[s]))
    /\ event' = Ran("hist_pickup", s, id, "success")
    /\ UNCHANGED <<page, user, collector_coords, now, nextId, disk>>
    /\ LedgerUntouched

(* collector_page, My Collection History: Cancel Acceptance. *)
HistCancelAcceptance(s, id) ==
    /\ page[s] = "collector_page"
    /\ \E d \in Range(accepted_by_me(donations[s], Val(user[s]))) : d.id = id
    /\ LET Body(dd) == CancelAcceptUpdate(dd, id, Val(user[s]))
       IN  Update(s, SeqMap(Body, donations[s]))
    /\ event' = Ran("hist_cancel_accept", s, id, "info")
    /\ UNCHANGED <<page, user, collector_coords, now, nextId, disk>>
    /\ LedgerUntouched

(* donor_page: the requester's donations listed under the notification of *)
(* this event (accepted, picked_up, cancelled: the lists of the same       *)
(* names), among the donations of donors that are not blocked.             *)
notified(list, phone, ev) ==
    LET Mine(d) == d.phone \notin load_blocked_users /\ d.phone = phone
                   /\ d.status = ev
    IN  SelectSeq(list, Mine)

(* donor_page: "Mark as seen" under a notification not yet seen.           *)
MarkSeen(s, id, ev) ==
    /\ page[s] = "donor_page"
    /\ \E d \in Range(notified(donations[s], Val(user[s]), ev)) : d.id = id
    /\ ~is_seen(users[s], Val(user[s]), "donor", id, ev)
    /\ users' = [users EXCEPT ![s] = mark_seen(users[s], Val(user[s]), "donor", id, ev)]
    /\ users_file' = IF mark_seen_saves(users[s], Val(user[s]))
                     THEN save_users(mark_seen(users[s], Val(user[s]), "donor", id, ev))
                     ELSE users_file
    /\ call' = Called("mark_seen", s, Val(user[s]), "donor", id, ev)
    /\ event' = NoEvent
    /\ UNCHANGED <<file, donations, page, user, collector_coords, now, nextId, disk>>

(* donor_page: "Unhide (show again)" under a notification marked seen.     *)
Unhide(s, id, ev) ==
    /\ page[s] = "donor_page"
    /\ \E d \in Range(notified(donations[s], Val(user[s]), ev)) : d.id = id
    /\ is_seen(users[s], Val(user[s]), "donor", id, ev)
    /\ users' = [users EXCEPT ![s] = unhide(users[s], Val(user[s]), id, ev)]
    /\ users_file' = save_users(unhide(users[s], Val(user[s]), id, ev))
    /\ call' = Called("unhide", s, Val(user[s]), "donor", id, ev)
    /\ event' = NoEvent
    /\ UNCHANGED <<file, donations, page, user, collector_coords, now, nextId, disk>>

(* The annotation written into the record of the list itself.              *)
Annotate_InPlace(d, km) ==
    LET marked == [k \in DOMAIN d \cup {"distance_km"} |->
                      IF k = "distance_km" THEN Some(km) ELSE d[k]]
    IN  [listed |-> marked, appended |-> [d |-> marked, distance_km |-> Some(km)]]

(* d_copy = {**d}; d_copy["distance_km"] = round(dist, 2);                 *)
(* nearby_donors.append(d_copy): the record of the session's list after    *)
(* the three statements, and the entry appended.                           *)
Annotate(d, km) ==
    [listed |-> d, appended |-> [d |-> d, distance_km |-> Some(km)]]

(* st.session_state.donations after the filter loop of the collector page: *)
(* with an origin set, every record that passed the filter has been        *)
(* through Annotate; without one the loop appends {**d} and assigns        *)
(* nothing.                                                                *)
scanned(list, me, coords) ==
    LET near == nearby_donors(list, me, coords)
        Hit(d) == {i \in DOMAIN near : near[i].d = d}
        Left(d) == IF coords # None /\ Hit(d) # {}
                   THEN Annotate(d, Val(near[CHOOSE i \in Hit(d) : TRUE].distance_km)).listed
                   ELSE d
    IN  SeqMap(Left, list)

Rendered(what, s) == [NoEvent EXCEPT !.op = what, !.session = s, !.me = Val(user[s])]

(* A run of collector_page that handles no click: the map, the filter      *)
(* loop, the browse list and My Collection History.                        *)
RenderCollector(s) ==
    /\ page[s] = "collector_page"
    /\ donations' = [donations EXCEPT
                        ![s] = scanned(donations[s], Val(user[s]), collector_coords[s])]
    /\ event' = Rendered("render_collector", s)
    /\ UNCHANGED <<file, page, user, collector_coords, now, nextId, disk>>
    /\ LedgerUntouched

(* A run of donor_page that handles no click: the four lists are list      *)
(* comprehensions over st.session_state.donations, and the notifications   *)
(* call is_seen only.                                                      *)
RenderDonor(s) ==
    /\ page[s] = "donor_page"
    /\ event' = Rendered("render_donor", s)
    /\ UNCHANGED <<file, donations, page, user, collector_coords, now, nextId, disk>>
    /\ LedgerUntouched

----------------------------------------------------------------------------

Ids == 1 .. MaxDonations

(* The donor form as submitted: all four required fields filled in, or     *)
(* one of them left empty.                                                 *)
Forms ==
    {form \in [1 .. 4 -> FieldInputs] : Cardinality({i \in 1 .. 4 : form[i] = ""}) <= 1}

(* The map click and the geocoder's answer: a click (the geocoder is not   *)
(* asked), no click and a place found, or neither.                         *)
Pointings ==
    {<<Some(p), None>> : p \in Spots} \cup {<<None, Some(p)>> : p \in Spots}
        \cup {<<None, None>>}

(* A submitted donor form and where it points.  A form with an empty       *)
(* field is rejected before the coordinates are looked at, so it is tried  *)
(* with one pointing only.                                                 *)
CreateInputs ==
    {sent \in Forms \X Pointings :
        (\E i \in 1 .. 4 : sent[1][i] = "") => sent[2] = <<None, None>>}

(* The collector's location text and the geocoder's answer to it: nothing  *)
(* typed, a text the geocoder finds, a text it does not find.              *)
LocationInputs ==
    {<<"", None>>, <<"x", None>>} \cup {<<"x", Some(o)>> : o \in Origins}

Next ==
    \/ Tick
    \/ \E s \in Sessions : NewSession(s)
    \/ \E s \in Sessions, phone \in Phones : Login(s, phone)
    \/ \E s \in Sessions, target \in {"donor_page", "collector_page"} : ChooseRole(s, target)
    \/ \E s \in Sessions : Back(s)
    \/ \E s \in Sessions : Logout(s)
    \/ \E s \in Sessions, typed \in LocationInputs : SetLocation(s, typed[1], typed[2])
    \/ \E s \in Sessions, sent \in CreateInputs :
          CreateDonation(s, sent[1][1], sent[1][2], sent[1][3], sent[1][4],
                         sent[2][1], sent[2][2])
    \/ \E s \in Sessions, id \in Ids : DonorCancel(s, id)
    \/ \E s \in Sessions, id \in Ids : Accept(s, id)
    \/ \E s \in Sessions, id \in Ids : ConfirmPickup(s, id)
    \/ \E s \in Sessions, id \in Ids : CancelAcceptance(s, id)
    \/ \E s \in Sessions, id \in Ids : HistConfirmPickup(s, id)
    \/ \E s \in Sessions, id \in Ids : HistCancelAcceptance(s, id)

Spec == Init /\ [][Next]_vars

----------------------------------------------------------------------------
(* The donation store with more than one donation: one user, who donates   *)
(* and collects, in every session; the clock stands still and no collector *)
(* location is set.                                                        *)

StorePhones == {"p1"}

StoreIds == 1 .. MaxStored

StoreNext ==
    \/ \E s \in Sessions : NewSession(s)
    \/ \E s \in Sessions, phone \in StorePhones : Login(s, phone)
    \/ \E s \in Sessions, target \in {"donor_page", "collector_page"} : ChooseRole(s, target)
    \/ \E s \in Sessions : Back(s)
    \/ \E s \in Sessions, sent \in CreateInputs :
          SaveDonation(MaxStored, s, sent[1][1], sent[1][2], sent[1][3], sent[1][4],
                       sent[2][1], sent[2][2])
    \/ \E s \in Sessions, id \in StoreIds : DonorCancel(s, id)
    \/ \E s \in Sessions, id \in StoreIds : Accept(s, id)
    \/ \E s \in Sessions, id \in StoreIds : ConfirmPickup(s, id)
    \/ \E s \in Sessions, id \in StoreIds : CancelAcceptance(s, id)
    \/ \E s \in Sessions, id \in StoreIds : HistConfirmPickup(s, id)
    \/ \E s \in Sessions, id \in StoreIds : HistCancelAcceptance(s, id)

StoreSpec == Init /\ [][StoreNext]_vars

----------------------------------------------------------------------------
(* The notifications: one browser session, in which the users register,    *)
(* donate, collect and mark notifications seen; users.json starts absent,  *)
(* or as an earlier version of the app left it, with a user whose record   *)
(* has no "seen" key or lacks one of the two buckets.                      *)

NotifySessions == {"s1"}

NotifyUserFiles ==
    {EmptyDict,
     [p \in {"p1"} |-> [name |-> NameOf(p), seen |-> None]],
     [p \in {"p1"} |-> [name |-> NameOf(p),
                        seen |-> Some([r \in Roles |->
                                    IF r = "donor" THEN Some(EmptyDict) ELSE None])]]}

NotifyInit == \E stored_users \in NotifyUserFiles : Started(stored_users)

NotifyNext ==
    \/ \E s \in NotifySessions : NewSession(s)
    \/ \E s \in NotifySessions, phone \in Phones : Login(s, phone)
    \/ \E s \in NotifySessions, target \in {"donor_page", "collector_page"} :
          ChooseRole(s, target)
    \/ \E s \in NotifySessions : Back(s)
    \/ \E s \in NotifySessions : Logout(s)
    \/ \E s \in NotifySessions, sent \in CreateInputs :
          CreateDonation(s, sent[1][1], sent[1][2], sent[1][3], sent[1][4],
                         sent[2][1], sent[2][2])
    \/ \E s \in NotifySessions, id \in Ids : DonorCancel(s, id)
    \/ \E s \in NotifySessions, id \in Ids : Accept(s, id)
    \/ \E s \in NotifySessions, id \in Ids : ConfirmPickup(s, id)
    \/ \E s \in NotifySessions, id \in Ids : CancelAcceptance(s, id)
    \/ \E s \in NotifySessions, id \in Ids : HistConfirmPickup(s, id)
    \/ \E s \in NotifySessions, id \in Ids : HistCancelAcceptance(s, id)
    \/ \E s \in NotifySessions, id \in Ids, ev \in Events : MarkSeen(s, id, ev)
    \/ \E s \in NotifySessions, id \in Ids, ev \in Events : Unhide(s, id, ev)

NotifySpec == NotifyInit /\ [][NotifyNext]_vars

----------------------------------------------------------------------------
(* The collector's matching view: one browser session opened on a          *)
(* donations.json that holds up to MaxListed donations of donor p2, each   *)
(* at any stage of its life, at one of the places of MatchSpots or, as an  *)
(* earlier version of the app left it, without coordinates.  The places    *)
(* lie, from the collector's origin, 3162 m away with latitude 0, exactly  *)
(* 10 km away, and 10004 m away (10.0 km when rounded to two decimals).    *)

MaxListed == 2

MatchSessions == {"s1"}

MatchSpots == {<<0, 4000>>, <<1000, 11000>>, <<1000, 11004>>}

(* A record as Save Donation wrote it, and as the handlers left it. *)
Stages(id, spot) ==
    LET fresh == new_donation(id, "p2", "x", "x", "x", "x", spot[1], spot[2], 1)
    IN  {fresh, DonorCancelUpdate(fresh, id, 1),
         PickupUpdate(AcceptUpdate(fresh, id, "p1", 1), id, "p1", 1)}
            \cup {AcceptUpdate(fresh, id, c, 1) : c \in Phones}

(* load_donations: a record whose lat and lon were strings that are no     *)
(* numbers has them set to None.                                           *)
Unlocated(id) ==
    [new_donation(id, "p2", "x", "x", "x", "x", 0, 0, 1) EXCEPT !.lat = None, !.lon = None]

MatchRecords(id) == {Unlocated(id)} \cup UNION {Stages(id, spot) : spot \in MatchSpots}

RECURSIVE MatchLists(_)
MatchLists(n) ==
    IF n = 0 THEN {<< >>}
    ELSE MatchLists(n - 1)
            \cup {Append(list, d) : list \in {l \in MatchLists(n - 1) : Len(l) = n - 1},
                                    d \in MatchRecords(n)}

MatchInit == \E stored \in MatchLists(MaxListed) : Loaded(stored, AllRegistered)

MatchIds == 1 .. MaxListed

MatchNext ==
    \/ \E s \in MatchSessions, phone \in Phones : Login(s, phone)
    \/ \E s \in MatchSessions, target \in {"donor_page", "collector_page"} : ChooseRole(s, target)
    \/ \E s \in MatchSessions : Back(s)
    \/ \E s \in MatchSessions : Logout(s)
    \/ \E s \in MatchSessions, typed \in LocationInputs : SetLocation(s, typed[1], typed[2])
    \/ \E s \in MatchSessions, id \in MatchIds : Accept(s, id)
    \/ \E s \in MatchSessions, id \in MatchIds : CancelAcceptance(s, id)

MatchSpec == MatchInit /\ [][MatchNext]_vars

----------------------------------------------------------------------------
(* save_json(DATA_FILE, obj) in two sessions, whose script threads run at  *)
(* the same time, and load_json(DATA_FILE): the steps of the calls         *)
(* interleave, and the process can die between any two of them.            *)

AppIdle ==
    UNCHANGED <<file, donations, page, user, collector_coords, now, nextId, event,
                users_file, users, call>>

(* f.write at offset pos of a file: the chunk lands after pos chunks; a    *)
(* file shorter than pos is filled up with a hole.                         *)
WriteAt(text, pos, chunk) ==
    [k \in 1 .. (IF Len(text) > pos + 1 THEN Len(text) ELSE pos + 1) |->
        IF k = pos + 1 THEN chunk
        ELSE IF k <= Len(text) THEN text[k] ELSE Hole]

(* open(tmp, "w"): the name path + ".tmp" is the same in every call; the   *)
(* file is created if the name does not exist and truncated if it does.    *)
OpenTmp(s, n) ==
    /\ disk.w[s].pc = "idle"
    /\ LET inode == IF disk.tmp = NoInode THEN disk.used + 1 ELSE disk.tmp
       IN  disk' = [disk EXCEPT
                       !.content[inode] = << >>,
                       !.tmp = inode,
                       !.used = IF disk.tmp = NoInode THEN disk.used + 1 ELSE disk.used,
                       !.w[s] = [pc |-> "writing", obj |-> Text(s, n),
                                 fd |-> inode, pos |-> 0]]
    /\ AppIdle

(* json.dump(obj, f): the next chunk of the text goes to the open file.    *)
Dump(s) ==
    /\ disk.w[s].pc = "writing"
    /\ disk.w[s].pos < Len(disk.w[s].obj)
    /\ disk' = [disk EXCEPT
                    !.content[disk.w[s].fd] =
                        WriteAt(disk.content[disk.w[s].fd], disk.w[s].pos,
                                disk.w[s].obj[disk.w[s].pos + 1]),
                    !.w[s].pos = disk.w[s].pos + 1]
    /\ AppIdle

(* The end of the with block: the file object is closed.                   *)
CloseTmp(s) ==
    /\ disk.w[s].pc = "writing"
    /\ disk.w[s].pos = Len(disk.w[s].obj)
    /\ disk' = [disk EXCEPT !.w[s].pc = "closed"]
    /\ AppIdle

(* os.replace(tmp, path): the name donations.json now leads to the file    *)
(* that donations.json.tmp led to, and the name donations.json.tmp is      *)
(* gone; without that name the call raises FileNotFoundError.              *)
Replace(s) ==
    /\ disk.w[s].pc = "closed"
    /\ disk' = IF disk.tmp # NoInode
               THEN [disk EXCEPT !.path = disk.tmp, !.tmp = NoInode, !.w[s].pc = "done"]
               ELSE [disk EXCEPT !.w[s].pc = "raised"]
    /\ AppIdle

(* The process dies: every save_json under way stops where it is.          *)
Crash ==
    /\ \E s \in Sessions : disk.w[s].pc \in {"writing", "closed"}
    /\ disk' = [disk EXCEPT
                    !.w = [s \in Sessions |->
                              IF disk.w[s].pc \in {"writing", "closed"}
                              THEN [disk.w[s] EXCEPT !.pc = "dead"]
                              ELSE disk.w[s]]]
    /\ AppIdle

(* The texts that are a complete JSON document: the one before the saves   *)
(* and the ones the calls were given.                                      *)
Complete == {Previous} \cup {disk.w[s].obj : s \in {x \in Sessions : disk.w[x].pc # "idle"}}

(* load_json(path, default): the parsed content of the file; the default   *)
(* if the file does not exist or json.load raises.                         *)
LoadJson ==
    /\ disk' = [disk EXCEPT
                    !.loaded = IF disk.path # NoInode /\ disk.content[disk.path] \in Complete
                               THEN disk.content[disk.path] ELSE Default]
    /\ AppIdle

SaveNext ==
    \/ \E s \in Sessions, n \in 1 .. MaxChunks : OpenTmp(s, n)
    \/ \E s \in Sessions : Dump(s)
    \/ \E s \in Sessions : CloseTmp(s)
    \/ \E s \in Sessions : Replace(s)
    \/ Crash
    \/ LoadJson

SaveSpec == Init /\ [][SaveNext]_vars

----------------------------------------------------------------------------
(* The seen ledger with two browser sessions: donations.json holds a       *)
(* donation of p1 accepted by p2 and a donation of p2 accepted by p1;      *)
(* users.json holds both users, or p1 only (p2 then registers at the       *)
(* first login).  The users log in, open the donor page, and mark their    *)
(* notification seen or unhide it.                                         *)

LedgerFile ==
    <<AcceptUpdate(new_donation(1, "p1", "x", "x", "x", "x", 1000, 4000, 1), 1, "p2", 1),
      AcceptUpdate(new_donation(2, "p2", "x", "x", "x", "x", 1000, 4000, 1), 2, "p1", 1)>>

LedgerUserFiles == {AllRegistered, [p \in {"p1"} |-> new_user(p)]}

LedgerInit == \E stored_users \in LedgerUserFiles : Loaded(LedgerFile, stored_users)

LedgerDonations == {1, 2}

LedgerNext ==
    \/ \E s \in Sessions : NewSession(s)
    \/ \E s \in Sessions, phone \in Phones : Login(s, phone)
    \/ \E s \in Sessions : ChooseRole(s, "donor_page")
    \/ \E s \in Sessions : Back(s)
    \/ \E s \in Sessions, id \in LedgerDonations, ev \in Events : MarkSeen(s, id, ev)
    \/ \E s \in Sessions, id \in LedgerDonations, ev \in Events : Unhide(s, id, ev)

LedgerSpec == LedgerInit /\ [][LedgerNext]_vars

----------------------------------------------------------------------------
(* The donor's dashboard with two browser sessions: donations.json holds   *)
(* the active donation 1 of p1.  The users log in, open the donor or the   *)
(* collector page and go back; a collector accepts the donation and        *)
(* cancels the acceptance; no notification is marked seen.  Every          *)
(* click reruns the script, which renders the session's page again: a      *)
(* session that is at the role page again and again goes on to the donor   *)
(* page, and a session at the donor or collector page goes back, so that   *)
(* the donor page of a session that stays open is rendered again and       *)
(* again.                                                                  *)

DashFile == <<new_donation(1, "p1", "x", "x", "x", "x", 1000, 4000, 1)>>

DashInit == Loaded(DashFile, AllRegistered)

DashNext ==
    \/ \E s \in Sessions : NewSession(s)
    \/ \E s \in Sessions, phone \in Phones : Login(s, phone)
    \/ \E s \in Sessions, target \in {"donor_page", "collector_page"} : ChooseRole(s, target)
    \/ \E s \in Sessions : Back(s)
    \/ \E s \in Sessions : Accept(s, 1)
    \/ \E s \in Sessions : CancelAcceptance(s, 1)

DashFair ==
    \A s \in Sessions : SF_vars(ChooseRole(s, "donor_page")) /\ WF_vars(Back(s))

DashSpec == DashInit /\ [][DashNext]_vars /\ DashFair

----------------------------------------------------------------------------
(* The pages as queries: one session over the stored lists of MatchInit;   *)
(* between the handlers the collector page and the donor page are rendered *)
(* without a click, and the donor marks notifications seen.                *)

QueryNext ==
    \/ MatchNext
    \/ \E s \in MatchSessions : RenderCollector(s)
    \/ \E s \in MatchSessions : RenderDonor(s)
    \/ \E s \in MatchSessions, id \in MatchIds : MarkSeen(s, id, "accepted")

QuerySpec == MatchInit /\ [][QueryNext]_vars

----------------------------------------------------------------------------
(* The pages of two browser sessions: users.json is empty, the admin and   *)
(* p1 register at their first login; they move between the role page and   *)
(* the donor, collector, community and admin pages, set a collector        *)
(* origin, and log out.  No report is pending, so the admin panel shows    *)
(* no button.                                                              *)

PagePhones == {ADMIN_PHONE, "p1"}

Pages == {"login", "role_select", "donor_page", "collector_page", "community_page",
          "admin_panel"}

PageInit == Started(EmptyDict)

PageNext ==
    \/ \E s \in Sessions, phone \in PagePhones : Login(s, phone)
    \/ \E s \in Sessions, target \in {"donor_page", "collector_page", "community_page"} :
          ChooseRole(s, target)
    \/ \E s \in Sessions : OpenAdminPanel(s)
    \/ \E s \in Sessions : Back(s)
    \/ \E s \in Sessions : CommunityBack(s)
    \/ \E s \in Sessions, typed \in LocationInputs : SetLocation(s, typed[1], typed[2])
    \/ \E s \in Sessions : Logout(s)

PageSpec == PageInit /\ [][PageNext]_vars

----------------------------------------------------------------------------
(* Properties *)

(* The acting session's record of the donation the last handler ran on,    *)
(* and the file's record of it, after the handler.                         *)
After == Find(donations[event.session], event.id)

StoredAfter == Find(file, event.id)

AllLists == {file} \cup {donations[s] : s \in Sessions}

AllRecords == UNION {Range(list) : list \in AllLists}

(* C1: exclusivity.  When a collector requests accept on a donation that   *)
(* the file already holds as accepted by another collector (the two        *)
(* accepts raced: the requester's session still shows it active), the      *)
(* accept is not reported successful and the persisted record keeps the    *)
(* collector whose accept succeeded.                                       *)
RacingAccept ==
    /\ event.op = "accept"
    /\ event.stored # None
    /\ Val(event.stored).status = "accepted"
    /\ Val(event.stored).collector_phone # Some(event.me)

C1_Exclusivity ==
    RacingAccept => event.report # "success" /\ StoredAfter = event.stored

C3_PickupByAssigned ==
    event.op \in PickupOps =>
        /\ event.before # None
        /\ Val(event.before).status = "accepted"
        /\ Val(event.before).collector_phone = Some(event.me)
        /\ After = Some([Val(event.before) EXCEPT
                            !.status = "picked_up", !.picked_up_at = Some(now)])
        /\ StoredAfter = After
        /\ (event.stored # None /\ Val(event.stored).status = "accepted"
               => Val(event.stored).collector_phone = Some(event.me))

(* The part of C3 that the handler's own check gives: on the session's     *)
(* record the pickup is by the assigned collector and changes two fields.  *)
PickupOnSessionCopy ==
    event.op \in PickupOps =>
        /\ event.before # None
        /\ Val(event.before).status = "accepted"
        /\ Val(event.before).collector_phone = Some(event.me)
        /\ After = Some([Val(event.before) EXCEPT
                            !.status = "picked_up", !.picked_up_at = Some(now)])
        /\ StoredAfter = After

C5_DonorCancelEffect ==
    event.op = "cancel" =>
        /\ event.before # None
        /\ Val(event.before).status = "active"
        /\ Val(event.before).phone = event.me
        /\ After = Some([Val(event.before) EXCEPT
                            !.status = "cancelled", !.cancelled_at = Some(now)])
        /\ StoredAfter = After
        /\ event.stored # None
        /\ Val(event.stored).status \notin {"accepted", "picked_up"}

(* The part of C5 that the page's own filter gives: on the session's       *)
(* record the cancel is by the donor, of an active donation.               *)
DonorCancelOnSessionCopy ==
    event.op = "cancel" =>
        /\ event.before # None
        /\ Val(event.before).status = "active"
        /\ Val(event.before).phone = event.me
        /\ After = Some([Val(event.before) EXCEPT
                            !.status = "cancelled", !.cancelled_at = Some(now)])
        /\ StoredAfter = After

(* C6: terminal states.  A record that the file holds as picked_up or      *)
(* cancelled is in the file unchanged after every step of every session.   *)
Terminal == {"picked_up", "cancelled"}

C6_TerminalFrozen ==
    [][\A i \in DOMAIN file :
          file[i].status \in Terminal => Find(file', file[i].id) = Some(file[i])]_vars

(* C7: a transition requested on a donation whose record in the file does  *)
(* not meet the transition's precondition (wrong status or wrong           *)
(* requester) is reported as an error and leaves the file's record as it   *)
(* was.                                                                    *)
Precondition(op, d, me) ==
    CASE op = "accept" -> d.status = "active"
      [] op \in PickupOps -> d.status = "accepted" /\ d.collector_phone = Some(me)
      [] op \in CancelAcceptOps -> d.status = "accepted" /\ d.collector_phone = Some(me)
      [] op = "cancel" -> d.status = "active" /\ d.phone = me

C7_FailedTransition ==
    (/\ event.op \in TransitionOps
     /\ event.stored # None
     /\ ~Precondition(event.op, Val(event.stored), event.me))
        => event.report = "error" /\ StoredAfter = event.stored

(* C8: reversibility.  An Accept Request finds the file's record equal to  *)
(* the session's whenever the file holds the donation as active, and a     *)
(* Cancel Acceptance that directly follows it leaves the session's and     *)
(* the file's record equal to the record before the Accept Request.        *)
C8_Reversible ==
    /\ (event.op = "accept" /\ event.stored # None
            /\ Val(event.stored).status = "active" => event.stored = event.before)
    /\ (event.op \in CancelAcceptOps /\ event.pre_accept # None
            => After = event.pre_accept /\ StoredAfter = event.pre_accept)

C8_Witness ==
    /\ event.op \in CancelAcceptOps
    /\ event.pre_accept # None
    /\ Val(event.pre_accept).created_at < now

(* C9: monotonic history.  From one state of the file to the next, a       *)
(* record keeps its created_at, and its picked_up_at changes only from     *)
(* null to a value, in a step that takes the record from accepted to       *)
(* picked_up.                                                              *)
C9_MonotonicHistory ==
    [][\A i \in DOMAIN file :
          LET d == file[i]
              e == Find(file', d.id)
          IN  e # None =>
                /\ Val(e).created_at = d.created_at
                /\ (Val(e).picked_up_at # d.picked_up_at =>
                       /\ d.picked_up_at = None
                       /\ d.status = "accepted"
                       /\ Val(e).status = "picked_up")]_vars

(* C10: every record, in the file and in every session, has one of the     *)
(* four statuses; accepted and picked_up records have a collector_phone    *)
(* and an accepted_at; active and cancelled records have no                *)
(* collector_name, collector_phone or accepted_at.                         *)
C10_RecordShape ==
    \A d \in AllRecords :
        /\ d.status \in Statuses
        /\ (d.status \in {"accepted", "picked_up"} =>
               d.collector_phone # None /\ d.accepted_at # None)
        /\ (d.status \in {"active", "cancelled"} =>
               d.collector_name = None /\ d.collector_phone = None
               /\ d.accepted_at = None)

C10_Witness ==
    /\ \E d \in Range(file) : d.status = "picked_up"
    /\ \E s \in Sessions : \E d \in Range(donations[s]) : d.status = "cancelled"

(* C11: with the clock never going back, every record, in the file and in  *)
(* every session, has created_at <= accepted_at <= picked_up_at where      *)
(* these are set; picked_up_at is set exactly when the status is           *)
(* picked_up; cancelled_at is set exactly when the status is cancelled,    *)
(* and then accepted_at and picked_up_at are null.                         *)
C11_Timestamps ==
    \A d \in AllRecords :
        /\ (d.accepted_at # None => d.created_at <= Val(d.accepted_at))
        /\ (d.picked_up_at # None => d.created_at <= Val(d.picked_up_at))
        /\ (d.accepted_at # None /\ d.picked_up_at # None
               => Val(d.accepted_at) <= Val(d.picked_up_at))
        /\ (d.picked_up_at # None <=> d.status = "picked_up")
        /\ (d.cancelled_at # None <=> d.status = "cancelled")
        /\ (d.status = "cancelled" => d.accepted_at = None /\ d.picked_up_at = None)

C11_Witness ==
    /\ \E d \in Range(file) :
          /\ d.status = "picked_up"
          /\ d.created_at < Val(d.picked_up_at)
    /\ \E s \in Sessions : \E d \in Range(donations[s]) :
          d.status = "cancelled" /\ d.created_at < Val(d.cancelled_at)

(* C12: donations are never deleted.  From one state of the file to the    *)
(* next, every id the file holds is still in the file.                     *)
C12_NeverDeleted ==
    [][\A i \in DOMAIN file : HasId(file', file[i].id)]_vars

(* C13: in the file and in every session's list the ids are non-empty and  *)
(* pairwise distinct; a reload returns the list with the ids it has; and   *)
(* every step leaves the id at every position of a session's list, or      *)
(* replaces the list by the reloaded file.                                 *)
UniqueIds(list) ==
    /\ \A i \in DOMAIN list : list[i].id # 0
    /\ \A i, j \in DOMAIN list : list[i].id = list[j].id => i = j

SameIds(list, other) ==
    /\ DOMAIN list = DOMAIN other
    /\ \A i \in DOMAIN list : other[i].id = list[i].id

C13_IdsUniqueImmutable ==
    [][/\ \A list \in {file'} \cup {donations'[s] : s \in Sessions} :
             UniqueIds(list) /\ SameIds(list, load_donations(list))
       /\ \A s \in Sessions :
             \/ \A i \in DOMAIN donations[s] :
                   i \in DOMAIN donations'[s] /\ donations'[s][i].id = donations[s][i].id
             \/ donations'[s] = load_donations(file)]_vars

C13_Witness ==
    /\ Len(file) = 2
    /\ file[1].status = "picked_up"
    /\ \E s \in Sessions : page[s] = "login" /\ donations[s] = file

----------------------------------------------------------------------------
(* The seen ledger.  An entry is <<phone, role, donation id, event>>; the  *)
(* ledger operations are applied to the dictionaries of the state: the     *)
(* file's and the sessions'.                                               *)

LedgerIds == {1, 2}

Entries == Phones \X Roles \X LedgerIds \X Events

Ledgers == {users_file} \cup {users[s] : s \in Sessions}

SessionLedgers == {users[s] : s \in Sessions}

Seen(dict, e) == is_seen(dict, e[1], e[2], e[3], e[4])

Marked(dict, e) == mark_seen(dict, e[1], e[2], e[3], e[4])

Unhidden(dict, e) == unhide(dict, e[1], e[3], e[4])

Cleared(dict, e) == clear_seen_for_donation(dict, e[1], e[2], e[3])

CallEntry(c) == <<c.phone, c.role, c.id, c.ev>>

(* C15: for a known user, mark_seen twice leaves the dictionary as         *)
(* mark_seen once does, with is_seen true; a clear (the donor page's       *)
(* Unhide, or clear_seen_for_donation) followed by mark_seen gives is_seen *)
(* true, mark_seen followed by a clear gives is_seen false; and after      *)
(* "Mark as seen" the session's dictionary is the marked one, is saved,    *)
(* and is_seen is true.                                                    *)
C15_MarkSeenIdempotent ==
    /\ \A dict \in Ledgers, e \in Entries :
          e[1] \in DOMAIN dict =>
              /\ Marked(Marked(dict, e), e) = Marked(dict, e)
              /\ Seen(Marked(dict, e), e)
              /\ Seen(Marked(Cleared(dict, e), e), e)
              /\ ~Seen(Cleared(Marked(dict, e), e), e)
    /\ \A dict \in SessionLedgers, e \in Entries :
          e[1] \in DOMAIN dict /\ e[2] = "donor" =>
              /\ Seen(Marked(Unhidden(dict, e), e), e)
              /\ ~Seen(Unhidden(Marked(dict, e), e), e)
    /\ call.op = "mark_seen" =>
          /\ users[call.session] = Marked(call.before, CallEntry(call))
          /\ Seen(users[call.session], CallEntry(call))
          /\ users_file = users[call.session]

C15_Witness ==
    /\ call.op = "mark_seen"
    /\ call.ev = "picked_up"
    /\ is_seen(call.before, call.phone, "donor", call.id, "accepted")
    /\ is_seen(users_file, call.phone, "donor", call.id, "picked_up")

(* C16: is_seen is true exactly for the entries the dictionary holds, so   *)
(* false for every entry of a user it does not have; mark_seen for such a  *)
(* user returns the dictionary as it was and saves nothing; mark_seen for  *)
(* a user it has is saved and makes is_seen true, also when the user's     *)
(* record lacks a bucket.                                                  *)
HasEntry(dict, e) ==
    /\ e[1] \in DOMAIN dict
    /\ dict[e[1]].seen # None
    /\ Val(dict[e[1]].seen)[e[2]] # None
    /\ e[3] \in DOMAIN Val(Val(dict[e[1]].seen)[e[2]])
    /\ e[4] \in Val(Val(dict[e[1]].seen)[e[2]])[e[3]]

C16_UnknownUserMissingBucket ==
    \A dict \in Ledgers, e \in Entries :
        /\ Seen(dict, e) = HasEntry(dict, e)
        /\ (e[1] \notin DOMAIN dict =>
               /\ ~Seen(dict, e)
               /\ Marked(dict, e) = dict
               /\ ~mark_seen_saves(dict, e[1]))
        /\ (e[1] \in DOMAIN dict =>
               /\ mark_seen_saves(dict, e[1])
               /\ HasEntry(Marked(dict, e), e)
               /\ DOMAIN Marked(dict, e) = DOMAIN dict)

C16_Witness ==
    /\ \E p \in DOMAIN users_file :
          users_file[p].seen # None /\ Val(users_file[p].seen)["collector"] = None
    /\ \E q \in Phones : q \notin DOMAIN users_file
    /\ \E d \in Range(file) : d.status = "accepted"

LifecycleOps == {"create"} \cup TransitionOps

C18_LifecycleLeavesLedger ==
    [][/\ event'.op \in LifecycleOps => users' = users /\ users_file' = users_file
       /\ \A s \in Sessions, e \in Entries :
             ~Seen(users[s], e) /\ Seen(users'[s], e) =>
                 \/ /\ call'.op = "mark_seen"
                    /\ call'.session = s
                    /\ CallEntry(call') = e
                 \/ users'[s] = load_users(users_file)]_vars

C18_Witness ==
    /\ event.op \in PickupOps
    /\ Val(After).status = "picked_up"
    /\ is_seen(users[event.session], Val(After).phone, "donor", event.id, "accepted")
    /\ ~is_seen(users[event.session], Val(After).phone, "donor", event.id, "picked_up")

(* C19: after an Accept Request that leaves the donation accepted, the     *)
(* accepted event of the donation is unseen for its donor, in the          *)
(* session's users and in users.json.                                      *)
C19_AcceptSurfaced ==
    (event.op = "accept" /\ After # None /\ Val(After).status = "accepted") =>
        /\ ~is_seen(users[event.session], Val(After).phone, "donor", event.id, "accepted")
        /\ ~is_seen(users_file, Val(After).phone, "donor", event.id, "accepted")

----------------------------------------------------------------------------
(* The collector's matching view.  View(s) is what the collector page of   *)
(* session s shows for the session's list, user and origin.                *)

Collecting(s) == page[s] = "collector_page"

View(s) == nearby_donors(donations[s], Val(user[s]), collector_coords[s])

Shown(s, d) == \E i \in DOMAIN View(s) : View(s)[i].d = d

Resolved(d) == d.lat # None /\ d.lon # None

Place(d) == <<Val(d.lat), Val(d.lon)>>

(* Active, or accepted by the requester. *)
Permitted(d, me) ==
    \/ d.status = "active"
    \/ d.status = "accepted" /\ d.collector_phone = Some(me)

(* The square of the distance, in metres, is at most that of the radius.   *)
InRadius(a, b) ==
    DistSq(a, b) <= (NEARBY_RADIUS_KM * 1000) * (NEARBY_RADIUS_KM * 1000)

(* C21: with an origin set, a donation with coordinates that the rule of   *)
(* visibility permits is in the view if and only if its unrounded          *)
(* distance to the origin is at most NEARBY_RADIUS_KM, the boundary        *)
(* included; and the distance_km of every entry of the view is that        *)
(* distance rounded to hundredths of a kilometre.                          *)
C21_GeoFilter ==
    \A s \in Sessions :
        Collecting(s) /\ collector_coords[s] # None =>
            /\ \A d \in Range(donations[s]) :
                  Resolved(d) /\ Permitted(d, Val(user[s])) =>
                      (Shown(s, d) <=> InRadius(Val(collector_coords[s]), Place(d)))
            /\ \A e \in Range(View(s)) :
                  /\ e.distance_km # None
                  /\ 10 * Val(e.distance_km) - 5
                         <= DistM(Val(collector_coords[s]), Place(e.d))
                  /\ DistM(Val(collector_coords[s]), Place(e.d))
                         < 10 * Val(e.distance_km) + 5

C21_Witness ==
    \E s \in Sessions :
        /\ Collecting(s) /\ collector_coords[s] # None
        /\ \E d \in Range(donations[s]) :
              /\ d.status = "active" /\ Resolved(d)
              /\ DistM(Val(collector_coords[s]), Place(d)) = NEARBY_RADIUS_KM * 1000
              /\ Shown(s, d)
        /\ \E d \in Range(donations[s]) :
              /\ d.status = "active" /\ Resolved(d)
              /\ DistM(Val(collector_coords[s]), Place(d)) > NEARBY_RADIUS_KM * 1000
              /\ Round2(DistM(Val(collector_coords[s]), Place(d))) = NEARBY_RADIUS_KM * 100
              /\ ~Shown(s, d)

(* C22: a donation of the session's list is in the collector's view if    *)
(* and only if its lat and lon are not None, the rule of visibility        *)
(* permits it and, with an origin set, it lies within the radius; so a     *)
(* donation with both coordinates is left out for no other reason, a       *)
(* coordinate equal to 0 included.                                         *)
C22_ExcludedOnlyByRule ==
    \A s \in Sessions :
        Collecting(s) =>
            \A d \in Range(donations[s]) :
                Shown(s, d) <=>
                    /\ Resolved(d)
                    /\ Permitted(d, Val(user[s]))
                    /\ (collector_coords[s] # None =>
                           InRadius(Val(collector_coords[s]), Place(d)))

(* C23: with no origin set, the view holds every donation with            *)
(* coordinates that is active or accepted by the requester, whatever its   *)
(* place, and nothing else, and no entry carries a distance.               *)
C23_DefaultView ==
    \A s \in Sessions :
        Collecting(s) /\ collector_coords[s] = None =>
            /\ \A d \in Range(donations[s]) :
                  Shown(s, d) <=> (Resolved(d) /\ Permitted(d, Val(user[s])))
            /\ \A e \in Range(View(s)) : e.distance_km = None

(* C24: every entry of the collector's view, and every donation the        *)
(* browse panel lets the collector pick, is active or is accepted with     *)
(* collector_phone the requester's, with and without an origin set.        *)
C24_VisibilityPolicy ==
    \A s \in Sessions :
        Collecting(s) =>
            /\ \A e \in Range(View(s)) :
                  /\ Permitted(e.d, Val(user[s]))
                  /\ e.d.status \notin {"picked_up", "cancelled"}
            /\ \A d \in Choosable(donations[s], Val(user[s]), collector_coords[s]) :
                  /\ Permitted(d, Val(user[s]))
                  /\ d.status \notin {"picked_up", "cancelled"}

C24_Witness ==
    \E s \in Sessions :
        /\ Collecting(s) /\ collector_coords[s] = None
        /\ \E d \in Range(donations[s]) :
              d.status = "accepted" /\ d.collector_phone # user[s] /\ Truthy(d.lat)
        /\ \E d \in Range(donations[s]) :
              d.status = "accepted" /\ d.collector_phone = user[s] /\ Shown(s, d)

(* C25: with an origin set, a donation (with coordinates) accepted by the  *)
(* requester is in the requester's view, however far away it lies, and a   *)
(* donation accepted by another collector is not.                          *)
C25_VisibilityScoping ==
    \A s \in Sessions :
        Collecting(s) /\ collector_coords[s] # None =>
            \A d \in Range(donations[s]) :
                d.status = "accepted" /\ Resolved(d) =>
                    (Shown(s, d) <=> d.collector_phone = user[s])

(* C26: with an origin set, the entries of the view, and those of the      *)
(* browse list, follow each other in the order of their distance from the  *)
(* origin.                                                                 *)
Ordered(entries, origin) ==
    \A i \in 1 .. Len(entries) - 1 :
        DistSq(origin, Place(entries[i].d)) <= DistSq(origin, Place(entries[i + 1].d))

C26_OrderedByDistance ==
    \A s \in Sessions :
        Collecting(s) /\ collector_coords[s] # None =>
            /\ Ordered(View(s), Val(collector_coords[s]))
            /\ Ordered(active_map(View(s), Val(user[s])), Val(collector_coords[s]))

----------------------------------------------------------------------------
(* Sessions working on the same file. *)

(* C27: a step of a lifecycle handler on one donation leaves the file's    *)
(* record of every other donation as it was.                               *)
C27_OtherDonationsUntouched ==
    [][event'.op \in LifecycleOps =>
          \A i \in DOMAIN file :
              file[i].id # event'.id => Find(file', file[i].id) = Some(file[i])]_vars

(* C28: a transition requested in a session whose record of the donation   *)
(* is not the file's (another session changed it since this one loaded     *)
(* the list) is never applied silently: the file's record is left as it    *)
(* was, or at the least an error is reported; and the file's record never  *)
(* goes from accepted to cancelled or from cancelled to picked_up.         *)
C28_NoStaleTransition ==
    (/\ event.op \in TransitionOps
     /\ event.stored # None
     /\ event.stored # event.before)
        => /\ event.report = "error" \/ StoredAfter = event.stored
           /\ ~(Val(event.stored).status = "accepted"
                   /\ Val(StoredAfter).status = "cancelled")
           /\ ~(Val(event.stored).status = "cancelled"
                   /\ Val(StoredAfter).status = "picked_up")

----------------------------------------------------------------------------
(* C30: at every point of every save_json, a crash and a second save_json  *)
(* of the same path under way included, donations.json exists and holds    *)
(* the complete content it had before or the complete content one of the   *)
(* calls was given.                                                        *)
C30_AtomicReplace ==
    /\ disk.path # NoInode
    /\ disk.content[disk.path] \in Complete

----------------------------------------------------------------------------
(* C31: a step of any session leaves in users.json every user it held,     *)
(* and every entry it held as seen, unless the step is the Unhide of that  *)
(* entry by its user.                                                      *)
C31_LedgerNeverLost ==
    [][/\ \A p \in DOMAIN users_file : p \in DOMAIN users_file'
       /\ \A e \in Entries :
             Seen(users_file, e) =>
                 \/ Seen(users_file', e)
                 \/ /\ call'.op = "unhide"
                    /\ CallEntry(call') = e
                    /\ user[call'.session] = Some(e[1])]_vars

----------------------------------------------------------------------------
(* C32: after an accept of donation 1 reported as successful, every        *)
(* session in which the donor is logged in comes to render the donor page  *)
(* with the 'accepted' notification of donation 1 listed and not seen,     *)
(* unless donations.json no longer holds the donation as accepted or the   *)
(* session is no longer the donor's.                                       *)
AcceptReported == event.op = "accept" /\ event.id = 1 /\ event.report = "success"

DonorOf(id) == Val(Find(file, id)).phone

StillAccepted(id) == Val(Find(file, id)).status = "accepted"

SeesAccepted(s, id) ==
    /\ page[s] = "donor_page"
    /\ user[s] # None
    /\ \E d \in Range(notified(donations[s], Val(user[s]), "accepted")) : d.id = id
    /\ ~is_seen(users[s], Val(user[s]), "donor", id, "accepted")

C32_DonorEventuallySees ==
    \A s \in Sessions :
        (AcceptReported /\ user[s] = Some(DonorOf(1)))
            ~> (SeesAccepted(s, 1) \/ ~StillAccepted(1) \/ user[s] # Some(DonorOf(1)))

----------------------------------------------------------------------------
(* C33: a render of the collector page (nearby view, browse list, history) *)
(* or of the donor page (the donor's lists) changes no donation record of  *)
(* the session or of donations.json and no ledger entry of the session or  *)
(* of users.json; and after every step no record of any session's list or  *)
(* of donations.json has a distance_km key.                                *)
Renders == {"render_collector", "render_donor"}

C33_QueriesReadOnly ==
    [][/\ event'.op \in Renders => UNCHANGED <<donations, file, users, users_file>>
       /\ \A s \in MatchSessions :
             \A d \in Range(donations'[s]) \cup Range(file') :
                 "distance_km" \notin DOMAIN d]_vars

(* The collector page has been rendered with an origin set and a           *)
(* non-empty nearby view, whose entries carry distance_km.                 *)
C33_Witness ==
    /\ event.op = "render_collector"
    /\ collector_coords[event.session] # None
    /\ nearby_donors(donations[event.session], event.me,
                     collector_coords[event.session]) # << >>
    /\ \E p \in Phones, id \in MatchIds : is_seen(users_file, p, "donor", id, "accepted")

----------------------------------------------------------------------------
(* C34, as stated: in every reachable state the collector of a donation    *)
(* record, in donations.json and in every session's list, is a user other  *)
(* than its donor.                                                         *)
C34_CollectorIsNotDonor ==
    \A d \in AllRecords : d.collector_phone # Some(d.phone)

(* C34, as the code has it: Accept Request and Confirm Pickup never        *)
(* compare the requester with the donor.  After an accept, and after a     *)
(* pickup reported as successful, the collector of the record is the       *)
(* requester, whoever posted the donation, and the donor of the record is  *)
(* the one it had before.                                                  *)
C34_CollectorIsRequester ==
    [][(event'.op = "accept" \/ (event'.op \in PickupOps /\ event'.report = "success"))
          => \E d \in Range(donations'[event'.session]) :
                /\ d.id = event'.id
                /\ d.collector_phone = Some(event'.me)
                /\ d.phone = Val(event'.before).phone
                /\ Find(file', event'.id) = Some(d)]_vars

(* A user has accepted the donation they posted and confirmed its pickup.  *)
C34_Witness ==
    \E d \in Range(file) :
        /\ d.status = "picked_up"
        /\ d.collector_phone = Some(d.phone)
        /\ event.op \in PickupOps /\ event.me = d.phone /\ event.id = d.id

----------------------------------------------------------------------------
(* C35: in every reachable state, in every session: the page is one of the *)
(* router's pages; on every page but the login page a user is logged in;   *)
(* on the login page (before the first login and after a logout) no user   *)
(* is logged in and no collector origin is set; and on the admin panel     *)
(* the user is the configured admin.                                       *)
C35_PageGuard ==
    \A s \in Sessions :
        /\ page[s] \in Pages
        /\ page[s] # "login" => user[s] # None
        /\ page[s] = "login" => user[s] = None /\ collector_coords[s] = None
        /\ page[s] = "admin_panel" => user[s] = Some(ADMIN_PHONE)

(* One session is in the admin panel; in the other p1, who had registered  *)
(* in it, has logged out, and the admin never logged in there.             *)
C35_Witness ==
    \E s, other \in Sessions :
        /\ page[s] = "admin_panel"
        /\ page[other] = "login"
        /\ "p1" \in DOMAIN users[other]
        /\ ADMIN_PHONE \notin DOMAIN users[other]

====
